---- MODULE Spec2Model ----
(***************************************************************************)
(* Model of the TUN inbound adapter, clash_lib/src/proxy/tun/inbound.rs:   *)
(* get_runner (device configuration and the joined runner future), the two *)
(* frame-pump loops, the TCP accept loop with its spawned                  *)
(* handl_inbound_stream tasks, and handle_inbound_datagram with its two    *)
(* spawned UDP loops and the two bounded mpsc channels.                    *)
(***************************************************************************)
EXTENDS Integers, Sequences, FiniteSets, TLC

VARIABLES
    cfg,        \* the TunConfig handed to get_runner
    result,     \* what get_runner returned (or that it panicked)
    tun_cfg,    \* the tun::Configuration built by get_runner
    effects,    \* ordered log of get_runner's side effects
    runner,     \* the returned future: "none", "pending", "running", "done"
    pump,       \* per direction: the loop's position and the frame it holds
    produced,   \* per direction: the frames its source yielded, in order
    written,    \* per direction: the frames its sink accepted, in order
    acceptPc,   \* the TCP accept loop: "idle", "next", "done"
    handlers,   \* the spawned handl_inbound_stream tasks, in accept order
    dispatched, \* the dispatch_stream calls, in call order
    resolver,   \* the DNS resolver's fake-IP state
    udpFut,     \* the future running handle_inbound_datagram
    lLoop,      \* the spawned dispatcher -> stack loop
    dLoop,      \* the spawned stack -> dispatcher loop
    l_chan,     \* mpsc channel l_tx -> l_rx (dispatcher -> stack)
    d_chan,     \* mpsc channel d_tx -> d_rx (stack -> dispatcher)
    udp_stream, \* the TunDatagram endpoint: "none", "alive", "dropped"
    taken,      \* datagrams lr.recv_from yielded, in order
    delivered,  \* packets the dispatcher received from d_rx, in order
    dispSent,   \* packets the dispatcher sent on l_tx, in order
    stackSent,  \* ls.send_to calls and their outcomes, in order
    dgramDispatched \* the dispatch_datagram calls, in order

cfgVars == <<cfg, result, tun_cfg, effects>>
pumpVars == <<pump, produced, written>>
tcpVars == <<acceptPc, handlers, dispatched>>
udpVars == <<udpFut, lLoop, dLoop, l_chan, d_chan, udp_stream, taken,
             delivered, dispSent, stackSent, dgramDispatched>>
vars == <<cfgVars, runner, pumpVars, tcpVars, resolver, udpVars>>

\* Option<T>: None is the empty sequence, Some(v) the one-element sequence.
None == <<>>
Some(v) == <<v>>
Unwrap(o) == o[1]

(***************************************************************************)
(* Strings that the code parses are sequences of one-character strings.    *)
(***************************************************************************)
Digits == {"0", "1", "2", "3", "4", "5", "6", "7", "8", "9"}
Alpha == {"a", "b", "c", "d", "e", "f", "n", "p", "t", "u", "v", "x"}
SchemeChars == Alpha \cup Digits \cup {"+", "-", "."}

DigitVal(c) ==
    CASE c = "0" -> 0 [] c = "1" -> 1 [] c = "2" -> 2 [] c = "3" -> 3
      [] c = "4" -> 4 [] c = "5" -> 5 [] c = "6" -> 6 [] c = "7" -> 7
      [] c = "8" -> 8 [] c = "9" -> 9

\* Index of the first element of s at or after i that satisfies no member of
\* set; Len(s) + 1 when there is none.
RECURSIVE SpanEnd(_, _, _)
SpanEnd(s, i, set) ==
    IF i > Len(s) \/ s[i] \notin set THEN i ELSE SpanEnd(s, i + 1, set)

\* Index of the first element of s at or after i that is in set.
RECURSIVE FindFirst(_, _, _)
FindFirst(s, i, set) ==
    IF i > Len(s) \/ s[i] \in set THEN i ELSE FindFirst(s, i + 1, set)

(***************************************************************************)
(* Url::parse, as far as get_runner depends on it: the scheme, and the     *)
(* host of a URL with a non-special scheme ("fd", "dev", ... are not       *)
(* special).  An empty host and a URL without "//" both give host() = None.*)
(***************************************************************************)
ForbiddenHostChars == {" ", "<", ">", "^", "|"}

UrlParse(s) ==
    LET schemeEnd == SpanEnd(s, 1, SchemeChars)
    IN  IF Len(s) = 0 \/ s[1] \notin Alpha
            \/ schemeEnd > Len(s) \/ s[schemeEnd] # ":"
        THEN [ok |-> FALSE, err |-> "relative URL without a base"]
        ELSE
        LET scheme == SubSeq(s, 1, schemeEnd - 1)
            rest == SubSeq(s, schemeEnd + 1, Len(s))
            hasAuthority == Len(rest) >= 2 /\ rest[1] = "/" /\ rest[2] = "/"
            authEnd == FindFirst(rest, 3, {"/", "?", "#"})
            authority == IF hasAuthority THEN SubSeq(rest, 3, authEnd - 1)
                         ELSE <<>>
            colon == FindFirst(authority, 1, {":"})
            hostStr == SubSeq(authority, 1, colon - 1)
            portStr == SubSeq(authority, colon + 1, Len(authority))
        IN  IF \E i \in 1..Len(hostStr) : hostStr[i] \in ForbiddenHostChars
            THEN [ok |-> FALSE, err |-> "invalid domain character"]
            ELSE IF \E i \in 1..Len(portStr) : portStr[i] \notin Digits
            THEN [ok |-> FALSE, err |-> "invalid port number"]
            ELSE [ok |-> TRUE, scheme |-> scheme,
                  host |-> IF hostStr = <<>> THEN None ELSE Some(hostStr)]

(***************************************************************************)
(* str::parse::<RawFd>: RawFd is a signed 32-bit integer.  An optional     *)
(* sign, then one or more decimal digits, the value within i32.  The range *)
(* test compares digit strings, as the value itself may not fit.           *)
(***************************************************************************)
RECURSIVE StripZeros(_)
StripZeros(s) ==
    IF Len(s) > 1 /\ s[1] = "0" THEN StripZeros(Tail(s)) ELSE s

\* a <= b for digit strings of equal length
RECURSIVE DigitsLeq(_, _)
DigitsLeq(a, b) ==
    IF a = <<>> THEN TRUE
    ELSE IF DigitVal(a[1]) # DigitVal(b[1]) THEN DigitVal(a[1]) < DigitVal(b[1])
    ELSE DigitsLeq(Tail(a), Tail(b))

I32_MAX_DIGITS == <<"2", "1", "4", "7", "4", "8", "3", "6", "4", "7">>
I32_MIN_DIGITS == <<"2", "1", "4", "7", "4", "8", "3", "6", "4", "8">>

FitsIn(digits, limit) ==
    LET d == StripZeros(digits)
    IN  Len(d) < Len(limit) \/ (Len(d) = Len(limit) /\ DigitsLeq(d, limit))

ParseRawFd(s) ==
    LET signed == Len(s) > 0 /\ s[1] \in {"+", "-"}
        digits == IF signed THEN SubSeq(s, 2, Len(s)) ELSE s
        neg == signed /\ s[1] = "-"
    IN  IF digits = <<>> \/ \E i \in 1..Len(digits) : digits[i] \notin Digits
        THEN [ok |-> FALSE, err |-> "invalid digit found in string"]
        ELSE IF ~FitsIn(digits, IF neg THEN I32_MIN_DIGITS ELSE I32_MAX_DIGITS)
        THEN [ok |-> FALSE, err |-> "number too large to fit in target type"]
        ELSE [ok |-> TRUE, fd |-> [neg |-> neg, digits |-> StripZeros(digits)]]

(***************************************************************************)
(* str::parse::<ipnet::IpNet> for IPv4.  A CIDR string is the sequence of  *)
(* its decimal fields and separators, <<a, ".", b, ".", c, ".", d, "/", p>>*)
(* and parses when the four octets are at most 255 and the prefix length   *)
(* is at most 32.  An address is its four octets.                          *)
(***************************************************************************)
Pow2(n) == 2 ^ n

IpNetParse(s) ==
    IF /\ Len(s) = 9
       /\ s[2] = "." /\ s[4] = "." /\ s[6] = "." /\ s[8] = "/"
       /\ \A i \in {1, 3, 5, 7} : s[i] \in 0..255
       /\ s[9] \in 0..32
    THEN [ok |-> TRUE, addr |-> <<s[1], s[3], s[5], s[7]>>,
          prefix_len |-> s[9]]
    ELSE [ok |-> FALSE, err |-> "invalid IP address syntax"]

\* The number of host bits of the prefix that fall into octet i (1..4).
HostBits(prefix_len, i) ==
    LET netBits == prefix_len - 8 * (i - 1)
    IN  IF netBits <= 0 THEN 8 ELSE IF netBits >= 8 THEN 0 ELSE 8 - netBits

\* Ipv4Net::netmask, network, broadcast
Netmask(net) == [i \in 1..4 |-> 256 - Pow2(HostBits(net.prefix_len, i))]
Network(net) ==
    [i \in 1..4 |-> net.addr[i] - (net.addr[i] % Pow2(HostBits(net.prefix_len, i)))]
Broadcast(net) ==
    [i \in 1..4 |-> Network(net)[i] + Pow2(HostBits(net.prefix_len, i)) - 1]

\* a <= b for addresses
AddrLeq(a, b) ==
    \/ a = b
    \/ \E i \in 1..4 : a[i] < b[i] /\ \A j \in 1..(i - 1) : a[j] = b[j]

\* Ipv4Addr saturating_add(1) and saturating_sub(1)
RECURSIVE AddrInc(_, _)
AddrInc(a, i) ==
    IF i = 0 THEN [j \in 1..4 |-> 255]
    ELSE IF a[i] < 255 THEN [a EXCEPT ![i] = a[i] + 1]
    ELSE AddrInc([a EXCEPT ![i] = 0], i - 1)

RECURSIVE AddrDec(_, _)
AddrDec(a, i) ==
    IF i = 0 THEN [j \in 1..4 |-> 0]
    ELSE IF a[i] > 0 THEN [a EXCEPT ![i] = a[i] - 1]
    ELSE AddrDec([a EXCEPT ![i] = 255], i - 1)

HostsFirst_network_address(net) == Some(Network(net))

\* Ipv4Net::hosts().nth(0): the network and broadcast addresses are left out
\* of the range when the prefix is shorter than 31 bits.
HostsFirst(net) ==
    LET start == IF net.prefix_len < 31 THEN AddrInc(Network(net), 4)
                 ELSE Network(net)
        end == IF net.prefix_len < 31 THEN AddrDec(Broadcast(net), 4)
               ELSE Broadcast(net)
    IN  IF AddrLeq(start, end) THEN Some(start) ELSE None

DefaultNetwork == <<198, ".", 18, ".", 0, ".", 0, "/", 16>>

(***************************************************************************)
(* get_runner up to the construction of the runner future.  devOpens and   *)
(* stackOpens are the outcomes of tun::create_as_async and                 *)
(* NetStack::with_buffer_size.  The value is the returned result, the      *)
(* tun::Configuration as far as it was built, and the ordered side effects.*)
(***************************************************************************)
DefaultTunCfg ==
    [raw_fd |-> None, name |-> None, address |-> None, netmask |-> None,
     up |-> FALSE]

OkNone == [tag |-> "Ok", value |-> "None"]
OkSomeRunner == [tag |-> "Ok", value |-> "Some"]
ErrOf(kind, what) == [tag |-> "Err", kind |-> kind, what |-> what]
PanicOf(msg) == [tag |-> "Panic", msg |-> msg]

Returned(r, tc, eff) == [result |-> r, tun_cfg |-> tc, effects |-> eff]

ConfigureAndOpen_opens_first(c, tc, eff, devOpens, stackOpens) ==
    LET netStr == IF c.network = None THEN DefaultNetwork
                  ELSE Unwrap(c.network)
        net == IpNetParse(netStr)
        eff1 == Append(eff, "tun::create_as_async")
        eff2 == Append(eff1, "IpNet::parse")
    IN  IF ~devOpens THEN Returned(ErrOf("Io", "create_as_async"), tc, eff1)
        ELSE IF ~net.ok THEN Returned(ErrOf("AddrParseError", net.err), tc, eff2)
        ELSE IF HostsFirst(net) = None
        THEN Returned(PanicOf("tun network doesn't contain any address"),
                      tc, eff2)
        ELSE
        LET tc1 == [tc EXCEPT !.address = Some(Unwrap(HostsFirst(net))),
                              !.netmask = Some(Netmask(net)), !.up = TRUE]
        IN  IF ~stackOpens
            THEN Returned(ErrOf("Io", "NetStack"), tc1,
                          Append(eff2, "NetStack::with_buffer_size"))
            ELSE Returned(OkSomeRunner, tc1,
                          Append(eff2, "NetStack::with_buffer_size"))

\* lines 148-169: the network, the interface address, the device, the stack
ConfigureAndOpen(c, tc, eff, devOpens, stackOpens) ==
    LET netStr == IF c.network = None THEN DefaultNetwork
                  ELSE Unwrap(c.network)
        net == IpNetParse(netStr)
        eff1 == Append(eff, "IpNet::parse")
    IN  IF ~net.ok THEN Returned(ErrOf("AddrParseError", net.err), tc, eff1)
        ELSE IF HostsFirst(net) = None
        THEN Returned(PanicOf("tun network doesn't contain any address"),
                      tc, eff1)
        ELSE
        LET tc1 == [tc EXCEPT !.address = Some(Unwrap(HostsFirst(net))),
                              !.netmask = Some(Netmask(net)), !.up = TRUE]
            eff2 == Append(eff1, "tun::create_as_async")
        IN  IF ~devOpens THEN Returned(ErrOf("Io", "create_as_async"), tc1, eff2)
            ELSE IF ~stackOpens
            THEN Returned(ErrOf("Io", "NetStack"), tc1,
                          Append(eff2, "NetStack::with_buffer_size"))
            ELSE Returned(OkSomeRunner, tc1,
                          Append(eff2, "NetStack::with_buffer_size"))

get_runner_ignoring_enable(c, devOpens, stackOpens) ==
    LET u == UrlParse(c.device_id)
        eff == <<"Url::parse">>
        tc == DefaultTunCfg
    IN  IF ~u.ok THEN Returned(ErrOf("InvalidConfig", "tun device"), tc, eff)
        ELSE IF u.scheme = <<"f", "d">>
        THEN IF u.host = None
             THEN Returned(PanicOf("tun fd must be provided"), tc, eff)
             ELSE LET fd == ParseRawFd(Unwrap(u.host))
                  IN  IF ~fd.ok
                      THEN Returned(ErrOf("InvalidConfig", "tun fd"), tc, eff)
                      ELSE ConfigureAndOpen(c, [tc EXCEPT !.raw_fd = Some(fd.fd)],
                                            eff, devOpens, stackOpens)
        ELSE IF u.scheme = <<"d", "e", "v">>
        THEN IF u.host = None
             THEN Returned(PanicOf("tun dev must be provided"), tc, eff)
             ELSE ConfigureAndOpen(c, [tc EXCEPT !.name = u.host],
                                   eff, devOpens, stackOpens)
        ELSE Returned(ErrOf("InvalidConfig", "invalid device id"), tc, eff)

get_runner_any_scheme_by_name(c, devOpens, stackOpens) ==
    LET u == UrlParse(c.device_id)
        eff == <<"Url::parse">>
        tc == DefaultTunCfg
    IN  IF ~c.enable THEN Returned(OkNone, DefaultTunCfg, <<>>)
        ELSE IF ~u.ok
        THEN Returned(ErrOf("InvalidConfig", "tun device"), tc, eff)
        ELSE IF u.host = None
        THEN Returned(PanicOf("tun dev must be provided"), tc, eff)
        ELSE ConfigureAndOpen(c, [tc EXCEPT !.name = u.host],
                              eff, devOpens, stackOpens)

get_runner(c, devOpens, stackOpens) ==
    LET u == UrlParse(c.device_id)
        eff == <<"Url::parse">>
        tc == DefaultTunCfg
    IN  IF ~c.enable THEN Returned(OkNone, DefaultTunCfg, <<>>)
        ELSE IF ~u.ok
        THEN Returned(ErrOf("InvalidConfig", "tun device"), tc, eff)
        ELSE IF u.scheme = <<"f", "d">>
        THEN IF u.host = None
             THEN Returned(PanicOf("tun fd must be provided"), tc, eff)
             ELSE LET fd == ParseRawFd(Unwrap(u.host))
                  IN  IF ~fd.ok
                      THEN Returned(ErrOf("InvalidConfig", "tun fd"), tc, eff)
                      ELSE ConfigureAndOpen(c, [tc EXCEPT !.raw_fd = Some(fd.fd)],
                                            eff, devOpens, stackOpens)
        ELSE IF u.scheme = <<"d", "e", "v">>
        THEN IF u.host = None
             THEN Returned(PanicOf("tun dev must be provided"), tc, eff)
             ELSE ConfigureAndOpen(c, [tc EXCEPT !.name = u.host],
                                   eff, devOpens, stackOpens)
        ELSE Returned(ErrOf("InvalidConfig", "invalid device id"), tc, eff)

(***************************************************************************)
(* The configurations the model calls get_runner with.                     *)
(***************************************************************************)
DeviceIds ==
    { <<"f", "d", ":", "/", "/", "3">>,
      <<"f", "d", ":", "/", "/", "0", "4", "2">>,
      <<"f", "d", ":", "/", "/", "2", "1", "4", "7", "4", "8", "3", "6", "4", "7">>,
      <<"f", "d", ":", "/", "/", "2", "1", "4", "7", "4", "8", "3", "6", "4", "8">>,
      <<"f", "d", ":", "/", "/", "t", "u", "n">>,
      <<"f", "d", ":", "/", "/">>,
      <<"f", "d", ":", "3">>,
      <<"d", "e", "v", ":", "/", "/", "u", "t", "u", "n", "8">>,
      <<"d", "e", "v", ":", "/", "/", "t", "u", "n", "0">>,
      <<"d", "e", "v", ":", "/", "/">>,
      <<"t", "a", "p", ":", "/", "/", "t", "a", "p", "0">>,
      <<"u", "t", "u", "n", "8">>,
      <<"/", "d", "e", "v", "/", "n", "e", "t", "/", "t", "u", "n">>,
      <<"d", "e", "v", ":", "/", "/", "t", "u", "n", " ", "0">> }

Networks ==
    { None,
      Some(<<198, ".", 18, ".", 0, ".", 0, "/", 16>>),
      Some(<<10, ".", 0, ".", 0, ".", 5, "/", 24>>),
      Some(<<192, ".", 168, ".", 1, ".", 1, "/", 32>>),
      Some(<<10, ".", 0, ".", 0, ".", 2, "/", 31>>),
      Some(<<0, ".", 0, ".", 0, ".", 0, "/", 0>>),
      Some(<<172, ".", 16, ".", 5, ".", 77, "/", 20>>),
      Some(<<10, ".", 0, ".", 0, ".", 0, "/", 33>>),
      Some(<<10, ".", 0, ".", 256, ".", 0, "/", 24>>),
      Some(<<10, ".", 0, ".", 0, ".", 0>>) }

TunConfigs ==
    [enable : BOOLEAN, device_id : DeviceIds, network : Networks]

NotCalled == [tag |-> "NotCalled"]

\* The caller invokes get_runner(cfg, dispatcher, resolver).
GetRunnerCall ==
    /\ result = NotCalled
    /\ \E devOpens \in BOOLEAN, stackOpens \in BOOLEAN :
         LET r == get_runner(cfg, devOpens, stackOpens)
         IN  /\ result' = r.result
             /\ tun_cfg' = r.tun_cfg
             /\ effects' = r.effects
             /\ runner' = IF r.result = OkSomeRunner THEN "pending" ELSE "none"
    /\ UNCHANGED <<cfg, pumpVars, tcpVars, resolver, udpVars>>

(***************************************************************************)
(* The runner future, lines 171-234.  Its first poll builds the four       *)
(* futures of futs and join_all starts polling them.                       *)
(***************************************************************************)
Dirs == {"stack_to_tun", "tun_to_stack"}

IdlePump == [pc |-> "idle", pkt |-> None, end |-> "running"]
IdleLoop == [pc |-> "idle", pkt |-> None]

RunnerStart ==
    /\ runner = "pending"
    /\ runner' = "running"
    /\ pump' = [d \in Dirs |-> [pc |-> "next", pkt |-> None, end |-> "running"]]
    /\ acceptPc' = "next"
    /\ udpFut' = "start"
    /\ UNCHANGED <<cfgVars, produced, written, handlers, dispatched, resolver,
                   lLoop, dLoop, l_chan, d_chan, udp_stream, taken, delivered,
                   dispSent, stackSent, dgramDispatched>>

\* futs, line 177-229: the futures join_all waits for
FutsDone ==
    /\ \A d \in Dirs : pump[d].pc = "done"
    /\ acceptPc = "done"
    /\ udpFut = "done"

AnyFutDone ==
    \/ \E d \in Dirs : pump[d].pc = "done"
    \/ acceptPc = "done"
    \/ udpFut = "done"

RunnerComplete_joins_spawned_tasks ==
    /\ runner = "running"
    /\ FutsDone
    /\ \A i \in 1..Len(handlers) : handlers[i].pc = "done"
    /\ lLoop.pc = "done"
    /\ dLoop.pc = "done"
    /\ runner' = "done"
    /\ UNCHANGED <<cfgVars, pumpVars, tcpVars, resolver, udpVars>>

RunnerComplete_race ==
    /\ runner = "running"
    /\ AnyFutDone
    /\ runner' = "done"
    /\ UNCHANGED <<cfgVars, pumpVars, tcpVars, resolver, udpVars>>

\* join_all(futs).await returns and "tun stopped" is logged, lines 231-233
RunnerComplete ==
    /\ runner = "running"
    /\ FutsDone
    /\ runner' = "done"
    /\ UNCHANGED <<cfgVars, pumpVars, tcpVars, resolver, udpVars>>

(***************************************************************************)
(* The frame pump, lines 179-211.  The stack yields raw frames and the     *)
(* device takes TunPackets; the device yields TunPackets and the stack     *)
(* takes raw frames.                                                       *)
(***************************************************************************)
Payloads == {"p1", "p2"}

RawFrame(p) == [kind |-> "bytes", data |-> p]
TunPacketNew(frame) == [kind |-> "TunPacket", data |-> frame.data]
IntoBytes(tunPacket) == [kind |-> "bytes", data |-> tunPacket.data]

\* what direction d's source yields for payload p
SourceItem(d, p) ==
    IF d = "stack_to_tun" THEN RawFrame(p) ELSE TunPacketNew(RawFrame(p))

\* what direction d's loop hands to its sink for the item it took
SinkItem(d, item) ==
    IF d = "stack_to_tun" THEN TunPacketNew(item) ELSE IntoBytes(item)

PumpNext_cancels_sibling(d, maxFrames, payloads) ==
    /\ pump[d].pc = "next"
    /\ \/ \E p \in payloads :
            /\ Len(produced[d]) < maxFrames
            /\ produced' = [produced EXCEPT ![d] = Append(@, SourceItem(d, p))]
            /\ pump' = [pump EXCEPT ![d].pc = "send",
                                    ![d].pkt = Some(SourceItem(d, p))]
       \/ /\ \E why \in {"source error", "end of stream"} :
               pump' = [e \in Dirs |->
                          IF e = d THEN [pump[d] EXCEPT !.pc = "done", !.end = why]
                          ELSE [pump[e] EXCEPT !.pc = "done", !.pkt = None,
                                               !.end = "cancelled"]]
          /\ UNCHANGED produced
    /\ UNCHANGED <<cfgVars, runner, written, tcpVars, resolver, udpVars>>

\* stream.next().await returns: a frame, an error, or end of stream
PumpNext(d, maxFrames, payloads) ==
    /\ pump[d].pc = "next"
    /\ \/ \E p \in payloads :
            /\ Len(produced[d]) < maxFrames
            /\ produced' = [produced EXCEPT ![d] = Append(@, SourceItem(d, p))]
            /\ pump' = [pump EXCEPT ![d].pc = "send",
                                    ![d].pkt = Some(SourceItem(d, p))]
       \/ /\ \E why \in {"source error", "end of stream"} :
               pump' = [pump EXCEPT ![d].pc = "done", ![d].end = why]
          /\ UNCHANGED produced
    /\ UNCHANGED <<cfgVars, runner, written, tcpVars, resolver, udpVars>>

PumpSend_twice(d) ==
    /\ pump[d].pc = "send"
    /\ \/ /\ written' = [written EXCEPT ![d] =
                            Append(Append(@, SinkItem(d, Unwrap(pump[d].pkt))),
                                   SinkItem(d, Unwrap(pump[d].pkt)))]
          /\ pump' = [pump EXCEPT ![d].pc = "next", ![d].pkt = None]
       \/ /\ pump' = [pump EXCEPT ![d].pc = "done", ![d].pkt = None,
                                    ![d].end = "sink error"]
          /\ UNCHANGED written
    /\ UNCHANGED <<cfgVars, runner, produced, tcpVars, resolver, udpVars>>

\* sink.send(..).await returns: written, or an error that ends the loop
PumpSend(d) ==
    /\ pump[d].pc = "send"
    /\ \/ /\ written' = [written EXCEPT ![d] =
                            Append(@, SinkItem(d, Unwrap(pump[d].pkt)))]
          /\ pump' = [pump EXCEPT ![d].pc = "next", ![d].pkt = None]
       \/ /\ pump' = [pump EXCEPT ![d].pc = "done", ![d].pkt = None,
                                    ![d].end = "sink error"]
          /\ UNCHANGED written
    /\ UNCHANGED <<cfgVars, runner, produced, tcpVars, resolver, udpVars>>

(***************************************************************************)
(* The resolver, as handl_inbound_stream and handle_inbound_datagram use   *)
(* it: fake_ip_enabled, is_fake_ip, reverse_lookup, lookup_fake_ip.        *)
(***************************************************************************)
IPs == {"198.18.0.5", "1.1.1.1"}
Hosts == {"example.com"}
Ports == {80, 443}

fake_ip_enabled == resolver.enabled
is_fake_ip(ip) == ip \in resolver.fake
reverse_lookup(ip) == resolver.rev[ip]
lookup_fake_ip(host) == resolver.fwd[host]

Resolvers ==
    [enabled : BOOLEAN, fake : SUBSET IPs,
     rev : [IPs -> {None} \cup {Some(h) : h \in Hosts}],
     fwd : [Hosts -> {None} \cup {Some(ip) : ip \in IPs}]]

\* SocketAddr and SocksAddr values
SocketAddr(ip, port) == [ip |-> ip, port |-> port]
SocksAddrIp(sockAddr) == [kind |-> "Ip", ip |-> sockAddr.ip, port |-> sockAddr.port]
SocksAddrDomain(host, port) == [kind |-> "Domain", host |-> host, port |-> port]

LocalAddrs == {SocketAddr("10.0.0.2", 5000)}
RemoteAddrs == {SocketAddr(ip, port) : ip \in IPs, port \in Ports}

DefaultSocketAddr == SocketAddr("0.0.0.0", 0)

(***************************************************************************)
(* The TCP accept loop, lines 215-225: every connection the listener       *)
(* yields is handed to a newly spawned handl_inbound_stream task.          *)
(***************************************************************************)
Spawned(local_addr, remote_addr) ==
    [pc |-> "spawned", local_addr |-> local_addr, remote_addr |-> remote_addr,
     sess |-> None, queries |-> {}, outcome |-> "running"]

AcceptNext_awaits_handler(maxConns, remotes) ==
    /\ acceptPc = "next"
    /\ \/ /\ Len(handlers) < maxConns
          /\ \A i \in 1..Len(handlers) : handlers[i].pc = "done"
          /\ \E local_addr \in LocalAddrs, remote_addr \in remotes :
               handlers' = Append(handlers, Spawned(local_addr, remote_addr))
          /\ UNCHANGED acceptPc
       \/ /\ acceptPc' = "done"
          /\ UNCHANGED handlers
    /\ UNCHANGED <<cfgVars, runner, pumpVars, dispatched, resolver, udpVars>>

AcceptNext(maxConns, remotes) ==
    /\ acceptPc = "next"
    /\ \/ /\ Len(handlers) < maxConns
          /\ \E local_addr \in LocalAddrs, remote_addr \in remotes :
               handlers' = Append(handlers, Spawned(local_addr, remote_addr))
          /\ UNCHANGED acceptPc
       \/ /\ acceptPc' = "done"
          /\ UNCHANGED handlers
    /\ UNCHANGED <<cfgVars, runner, pumpVars, dispatched, resolver, udpVars>>

(***************************************************************************)
(* handl_inbound_stream, lines 18-42.  The task of connection i suspends   *)
(* at is_fake_ip, at reverse_lookup and at dispatch_stream.                *)
(***************************************************************************)
\* line 25-30
NewSession(local_addr, remote_addr) ==
    [network |-> "Tcp", source |-> local_addr,
     destination |-> SocksAddrIp(remote_addr)]

\* line 41: the call of dispatcher.dispatch_stream(sess, stream)
CallDispatchStream(i, sess) ==
    /\ dispatched' = Append(dispatched, [conn |-> i, sess |-> sess])
    /\ handlers' = [handlers EXCEPT ![i].pc = "dispatch_stream",
                                    ![i].sess = Some(sess)]

\* first poll: the session is built and fake_ip_enabled() is evaluated
HandlerStart_always_asks(i) ==
    /\ i \in 1..Len(handlers)
    /\ handlers[i].pc = "spawned"
    /\ LET h == handlers[i]
           sess == NewSession(h.local_addr, h.remote_addr)
       IN  /\ handlers' = [handlers EXCEPT ![i].pc = "is_fake_ip",
                              ![i].sess = Some(sess),
                              ![i].queries = @ \cup {"is_fake_ip"}]
           /\ UNCHANGED dispatched
    /\ UNCHANGED <<cfgVars, runner, pumpVars, acceptPc, resolver, udpVars>>

HandlerStart(i) ==
    /\ i \in 1..Len(handlers)
    /\ handlers[i].pc = "spawned"
    /\ LET h == handlers[i]
           sess == NewSession(h.local_addr, h.remote_addr)
       IN  IF fake_ip_enabled
           THEN /\ handlers' = [handlers EXCEPT ![i].pc = "is_fake_ip",
                                   ![i].sess = Some(sess),
                                   ![i].queries = @ \cup {"is_fake_ip"}]
                /\ UNCHANGED dispatched
           ELSE CallDispatchStream(i, sess)
    /\ UNCHANGED <<cfgVars, runner, pumpVars, acceptPc, resolver, udpVars>>

IsFakeIpReturns_skips_lookup(i) ==
    /\ i \in 1..Len(handlers)
    /\ handlers[i].pc = "is_fake_ip"
    /\ CallDispatchStream(i, Unwrap(handlers[i].sess))
    /\ UNCHANGED <<cfgVars, runner, pumpVars, acceptPc, resolver, udpVars>>

\* is_fake_ip(remote_addr.ip()).await returns
IsFakeIpReturns(i) ==
    /\ i \in 1..Len(handlers)
    /\ handlers[i].pc = "is_fake_ip"
    /\ LET h == handlers[i]
       IN  IF is_fake_ip(h.remote_addr.ip)
           THEN /\ handlers' = [handlers EXCEPT ![i].pc = "reverse_lookup",
                                   ![i].queries = @ \cup {"reverse_lookup"}]
                /\ UNCHANGED dispatched
           ELSE CallDispatchStream(i, Unwrap(h.sess))
    /\ UNCHANGED <<cfgVars, runner, pumpVars, acceptPc, resolver, udpVars>>

ReverseLookupReturns_falls_back(i) ==
    /\ i \in 1..Len(handlers)
    /\ handlers[i].pc = "reverse_lookup"
    /\ LET h == handlers[i]
           host == reverse_lookup(h.remote_addr.ip)
       IN  IF host # None
           THEN CallDispatchStream(i,
                    [Unwrap(h.sess) EXCEPT !.destination =
                        SocksAddrDomain(Unwrap(host), h.remote_addr.port)])
           ELSE CallDispatchStream(i, Unwrap(h.sess))
    /\ UNCHANGED <<cfgVars, runner, pumpVars, acceptPc, resolver, udpVars>>

ReverseLookupReturns_default_port(i) ==
    /\ i \in 1..Len(handlers)
    /\ handlers[i].pc = "reverse_lookup"
    /\ LET h == handlers[i]
           host == reverse_lookup(h.remote_addr.ip)
       IN  IF host # None
           THEN CallDispatchStream(i,
                    [Unwrap(h.sess) EXCEPT !.destination =
                        SocksAddrDomain(Unwrap(host), 80)])
           ELSE /\ handlers' = [handlers EXCEPT ![i].pc = "done",
                                   ![i].outcome = "abandoned"]
                /\ UNCHANGED dispatched
    /\ UNCHANGED <<cfgVars, runner, pumpVars, acceptPc, resolver, udpVars>>

\* reverse_lookup(remote_addr.ip()).await returns
ReverseLookupReturns(i) ==
    /\ i \in 1..Len(handlers)
    /\ handlers[i].pc = "reverse_lookup"
    /\ LET h == handlers[i]
           host == reverse_lookup(h.remote_addr.ip)
       IN  IF host # None
           THEN CallDispatchStream(i,
                    [Unwrap(h.sess) EXCEPT !.destination =
                        SocksAddrDomain(Unwrap(host), h.remote_addr.port)])
           ELSE /\ handlers' = [handlers EXCEPT ![i].pc = "done",
                                   ![i].outcome = "abandoned"]
                /\ UNCHANGED dispatched
    /\ UNCHANGED <<cfgVars, runner, pumpVars, acceptPc, resolver, udpVars>>

\* dispatch_stream(sess, stream).await returns and the task ends
DispatchStreamReturns(i) ==
    /\ i \in 1..Len(handlers)
    /\ handlers[i].pc = "dispatch_stream"
    /\ handlers' = [handlers EXCEPT ![i].pc = "done",
                                    ![i].outcome = "dispatched"]
    /\ UNCHANGED <<cfgVars, runner, pumpVars, acceptPc, dispatched, resolver,
                   udpVars>>

(***************************************************************************)
(* handle_inbound_datagram, lines 44-108.  It has no suspension point: one *)
(* poll splits the socket, creates both channels and the TunDatagram       *)
(* endpoint, spawns both loops and calls dispatch_datagram.                *)
(***************************************************************************)
LChannelCapacity == 32
DChannelCapacity == 32

DefaultSession(network) ==
    [network |-> network, source |-> DefaultSocketAddr,
     destination |-> SocksAddrIp(DefaultSocketAddr)]

HandleInboundDatagram ==
    /\ udpFut = "start"
    /\ udpFut' = "done"
    /\ l_chan' = <<>>
    /\ d_chan' = <<>>
    /\ udp_stream' = "alive"
    /\ lLoop' = [pc |-> "recv", pkt |-> None]
    /\ dLoop' = [pc |-> "recv_from", pkt |-> None]
    /\ dgramDispatched' = Append(dgramDispatched,
                                 [sess |-> DefaultSession("Udp"),
                                  endpoint |-> "udp_stream"])
    /\ UNCHANGED <<cfgVars, runner, pumpVars, tcpVars, resolver, taken,
                   delivered, dispSent, stackSent>>

\* UdpPacket
UdpPacket(data, src_addr, dst_addr) ==
    [data |-> data, src_addr |-> src_addr, dst_addr |-> dst_addr]

\* line 74-80: ls.send_to(data, src, dst.must_into_socket_addr()); a failed
\* write is logged and the loop goes on
SendTo(pkt, src, ok) ==
    stackSent' = Append(stackSent,
                        [data |-> pkt.data, src |-> src,
                         dst |-> SocketAddr(pkt.dst_addr.ip, pkt.dst_addr.port),
                         ok |-> ok])

LoopRecv_waits_for_outbound(sendOutcomes) ==
    /\ lLoop.pc = "recv"
    /\ Len(d_chan) < DChannelCapacity
    /\ \/ /\ l_chan # <<>>
          /\ l_chan' = Tail(l_chan)
          /\ LET pkt == Head(l_chan)
             IN  IF pkt.src_addr.kind = "Domain"
                 THEN /\ lLoop' = [pc |-> "lookup_fake_ip", pkt |-> Some(pkt)]
                      /\ UNCHANGED stackSent
                 ELSE IF pkt.dst_addr.kind = "Domain"
                 THEN /\ lLoop' = [pc |-> "panicked", pkt |-> None]
                      /\ UNCHANGED stackSent
                 ELSE /\ \E ok \in sendOutcomes :
                           SendTo(pkt, SocketAddr(pkt.src_addr.ip,
                                                  pkt.src_addr.port), ok)
                      /\ UNCHANGED lLoop
       \/ /\ l_chan = <<>>
          /\ udp_stream = "dropped"
          /\ lLoop' = [pc |-> "done", pkt |-> None]
          /\ UNCHANGED <<l_chan, stackSent>>
    /\ UNCHANGED <<cfgVars, runner, pumpVars, tcpVars, resolver, udpFut, dLoop,
                   d_chan, udp_stream, taken, delivered, dispSent,
                   dgramDispatched>>

\* l_rx.recv().await returns, lines 62-73: a packet, or None once every
\* sender is gone and the channel is empty
LoopRecv(sendOutcomes) ==
    /\ lLoop.pc = "recv"
    /\ \/ /\ l_chan # <<>>
          /\ l_chan' = Tail(l_chan)
          /\ LET pkt == Head(l_chan)
             IN  IF pkt.src_addr.kind = "Domain"
                 THEN /\ lLoop' = [pc |-> "lookup_fake_ip", pkt |-> Some(pkt)]
                      /\ UNCHANGED stackSent
                 ELSE IF pkt.dst_addr.kind = "Domain"
                 THEN /\ lLoop' = [pc |-> "panicked", pkt |-> None]
                      /\ UNCHANGED stackSent
                 ELSE /\ \E ok \in sendOutcomes :
                           SendTo(pkt, SocketAddr(pkt.src_addr.ip,
                                                  pkt.src_addr.port), ok)
                      /\ UNCHANGED lLoop
       \/ /\ l_chan = <<>>
          /\ udp_stream = "dropped"
          /\ lLoop' = [pc |-> "done", pkt |-> None]
          /\ UNCHANGED <<l_chan, stackSent>>
    /\ UNCHANGED <<cfgVars, runner, pumpVars, tcpVars, resolver, udpFut, dLoop,
                   d_chan, udp_stream, taken, delivered, dispSent,
                   dgramDispatched>>

LookupFakeIpReturns_stops_on_miss(sendOutcomes) ==
    /\ lLoop.pc = "lookup_fake_ip"
    /\ LET pkt == Unwrap(lLoop.pkt)
           ip == lookup_fake_ip(pkt.src_addr.host)
       IN  IF ip = None
           THEN /\ lLoop' = [pc |-> "done", pkt |-> None]
                /\ UNCHANGED stackSent
           ELSE IF pkt.dst_addr.kind = "Domain"
           THEN /\ lLoop' = [pc |-> "panicked", pkt |-> None]
                /\ UNCHANGED stackSent
           ELSE /\ \E ok \in sendOutcomes :
                     SendTo(pkt, SocketAddr(Unwrap(ip), pkt.src_addr.port), ok)
                /\ lLoop' = [pc |-> "recv", pkt |-> None]
    /\ UNCHANGED <<cfgVars, runner, pumpVars, tcpVars, resolver, udpFut, dLoop,
                   l_chan, d_chan, udp_stream, taken, delivered, dispSent,
                   dgramDispatched>>

\* resolver.lookup_fake_ip(&host).await returns, lines 66-71
LookupFakeIpReturns(sendOutcomes) ==
    /\ lLoop.pc = "lookup_fake_ip"
    /\ LET pkt == Unwrap(lLoop.pkt)
           ip == lookup_fake_ip(pkt.src_addr.host)
       IN  IF ip = None
           THEN /\ lLoop' = [pc |-> "recv", pkt |-> None]
                /\ UNCHANGED stackSent
           ELSE IF pkt.dst_addr.kind = "Domain"
           THEN /\ lLoop' = [pc |-> "panicked", pkt |-> None]
                /\ UNCHANGED stackSent
           ELSE /\ \E ok \in sendOutcomes :
                     SendTo(pkt, SocketAddr(Unwrap(ip), pkt.src_addr.port), ok)
                /\ lLoop' = [pc |-> "recv", pkt |-> None]
    /\ UNCHANGED <<cfgVars, runner, pumpVars, tcpVars, resolver, udpFut, dLoop,
                   l_chan, d_chan, udp_stream, taken, delivered, dispSent,
                   dgramDispatched>>

\* the n-th datagram the stack's receive half yields
StackDatagram(n, src_addr, dst_addr) ==
    [data |-> n, src_addr |-> src_addr, dst_addr |-> dst_addr]

LoopRecvFrom_dispatches_each_datagram(maxPackets, endpoints) ==
    /\ dLoop.pc = "recv_from"
    /\ \/ /\ Len(taken) + Len(dispSent) < maxPackets
          /\ \E src_addr \in endpoints, dst_addr \in endpoints :
               LET dg == StackDatagram(Len(taken) + 1, src_addr, dst_addr)
               IN  /\ taken' = Append(taken, dg)
                   /\ dLoop' = [pc |-> "send",
                                pkt |-> Some(UdpPacket(dg.data,
                                                SocksAddrIp(dg.src_addr),
                                                SocksAddrIp(dg.dst_addr)))]
                   /\ dgramDispatched' =
                          Append(dgramDispatched,
                                 [sess |-> [DefaultSession("Udp") EXCEPT
                                              !.source = dg.src_addr],
                                  endpoint |-> "udp_stream"])
       \/ /\ dLoop' = [pc |-> "done", pkt |-> None]
          /\ UNCHANGED <<taken, dgramDispatched>>
    /\ UNCHANGED <<cfgVars, runner, pumpVars, tcpVars, resolver, udpFut, lLoop,
                   l_chan, d_chan, udp_stream, delivered, dispSent, stackSent>>

\* lr.recv_from().await returns, lines 86-91: a datagram, or an error that
\* ends the loop
LoopRecvFrom(maxPackets, endpoints) ==
    /\ dLoop.pc = "recv_from"
    /\ \/ /\ Len(taken) + Len(dispSent) < maxPackets
          /\ \E src_addr \in endpoints, dst_addr \in endpoints :
               LET dg == StackDatagram(Len(taken) + 1, src_addr, dst_addr)
               IN  /\ taken' = Append(taken, dg)
                   /\ dLoop' = [pc |-> "send",
                                pkt |-> Some(UdpPacket(dg.data,
                                                SocksAddrIp(dg.src_addr),
                                                SocksAddrIp(dg.dst_addr)))]
       \/ /\ dLoop' = [pc |-> "done", pkt |-> None]
          /\ UNCHANGED taken
    /\ UNCHANGED <<cfgVars, runner, pumpVars, tcpVars, resolver, udpFut, lLoop,
                   l_chan, d_chan, udp_stream, delivered, dispSent, stackSent,
                   dgramDispatched>>

LoopSend_breaks_on_error ==
    /\ dLoop.pc = "send"
    /\ \/ /\ udp_stream = "alive"
          /\ Len(d_chan) < DChannelCapacity
          /\ d_chan' = Append(d_chan, Unwrap(dLoop.pkt))
          /\ dLoop' = [pc |-> "recv_from", pkt |-> None]
       \/ /\ udp_stream = "dropped"
          /\ UNCHANGED d_chan
          /\ dLoop' = [pc |-> "done", pkt |-> None]
    /\ UNCHANGED <<cfgVars, runner, pumpVars, tcpVars, resolver, udpFut, lLoop,
                   l_chan, udp_stream, taken, delivered, dispSent, stackSent,
                   dgramDispatched>>

LoopSend_propagates_failure ==
    /\ dLoop.pc = "send"
    /\ \/ /\ udp_stream = "alive"
          /\ Len(d_chan) < DChannelCapacity
          /\ d_chan' = Append(d_chan, Unwrap(dLoop.pkt))
          /\ UNCHANGED lLoop
       \/ /\ udp_stream = "dropped"
          /\ UNCHANGED d_chan
          /\ lLoop' = [pc |-> "done", pkt |-> None]
    /\ dLoop' = [pc |-> "recv_from", pkt |-> None]
    /\ UNCHANGED <<cfgVars, runner, pumpVars, tcpVars, resolver, udpFut,
                   l_chan, udp_stream, taken, delivered, dispSent, stackSent,
                   dgramDispatched>>

LoopSend_drops_when_full ==
    /\ dLoop.pc = "send"
    /\ IF udp_stream = "alive" /\ Len(d_chan) < DChannelCapacity
       THEN d_chan' = Append(d_chan, Unwrap(dLoop.pkt))
       ELSE UNCHANGED d_chan
    /\ dLoop' = [pc |-> "recv_from", pkt |-> None]
    /\ UNCHANGED <<cfgVars, runner, pumpVars, tcpVars, resolver, udpFut, lLoop,
                   l_chan, udp_stream, taken, delivered, dispSent, stackSent,
                   dgramDispatched>>

\* d_tx.send(pkt).await returns, lines 93-98: it waits for a free slot while
\* the receiver exists, and fails once the receiver is gone
LoopSend ==
    /\ dLoop.pc = "send"
    /\ \/ /\ udp_stream = "alive"
          /\ Len(d_chan) < DChannelCapacity
          /\ d_chan' = Append(d_chan, Unwrap(dLoop.pkt))
       \/ /\ udp_stream = "dropped"
          /\ UNCHANGED d_chan
    /\ dLoop' = [pc |-> "recv_from", pkt |-> None]
    /\ UNCHANGED <<cfgVars, runner, pumpVars, tcpVars, resolver, udpFut, lLoop,
                   l_chan, udp_stream, taken, delivered, dispSent, stackSent,
                   dgramDispatched>>

(***************************************************************************)
(* The dispatcher's side of the TunDatagram endpoint: it receives from     *)
(* d_rx, sends on l_tx, and may drop the endpoint.                         *)
(***************************************************************************)
DispatcherRecv ==
    /\ udp_stream = "alive"
    /\ d_chan # <<>>
    /\ delivered' = Append(delivered, Head(d_chan))
    /\ d_chan' = Tail(d_chan)
    /\ UNCHANGED <<cfgVars, runner, pumpVars, tcpVars, resolver, udpFut, lLoop,
                   dLoop, l_chan, udp_stream, taken, dispSent, stackSent,
                   dgramDispatched>>

DispatcherSend(maxPackets, srcs, dsts) ==
    /\ udp_stream = "alive"
    /\ Len(l_chan) < LChannelCapacity
    /\ Len(taken) + Len(dispSent) < maxPackets
    /\ \E src_addr \in srcs, dst_addr \in dsts :
         LET pkt == UdpPacket(Len(dispSent) + 1, src_addr, dst_addr)
         IN  /\ l_chan' = Append(l_chan, pkt)
             /\ dispSent' = Append(dispSent, pkt)
    /\ UNCHANGED <<cfgVars, runner, pumpVars, tcpVars, resolver, udpFut, lLoop,
                   dLoop, d_chan, udp_stream, taken, delivered, stackSent,
                   dgramDispatched>>

\* dropping the endpoint drops d_rx (the queued packets with it) and l_tx
DispatcherDrop ==
    /\ udp_stream = "alive"
    /\ udp_stream' = "dropped"
    /\ d_chan' = <<>>
    /\ UNCHANGED <<cfgVars, runner, pumpVars, tcpVars, resolver, udpFut, lLoop,
                   dLoop, l_chan, taken, delivered, dispSent, stackSent,
                   dgramDispatched>>

(***************************************************************************)
(* Initial states.                                                         *)
(***************************************************************************)
MaxConns == 2
MaxFrames == 3

ValidConfig ==
    [enable |-> TRUE,
     device_id |-> <<"d", "e", "v", ":", "/", "/", "u", "t", "u", "n", "8">>,
     network |-> None]

DefaultResolver ==
    [enabled |-> TRUE, fake |-> {"198.18.0.5"},
     rev |-> [ip \in IPs |-> IF ip = "198.18.0.5" THEN Some("example.com")
                             ELSE None],
     fwd |-> [h \in Hosts |-> Some("198.18.0.5")]]

\* nothing of the runner exists before get_runner has returned it
TasksIdle ==
    /\ pump = [d \in Dirs |-> IdlePump]
    /\ produced = [d \in Dirs |-> <<>>]
    /\ written = [d \in Dirs |-> <<>>]
    /\ acceptPc = "idle"
    /\ handlers = <<>>
    /\ dispatched = <<>>
    /\ udpFut = "idle"
    /\ lLoop = IdleLoop
    /\ dLoop = IdleLoop
    /\ l_chan = <<>>
    /\ d_chan = <<>>
    /\ udp_stream = "none"
    /\ taken = <<>>
    /\ delivered = <<>>
    /\ dispSent = <<>>
    /\ stackSent = <<>>
    /\ dgramDispatched = <<>>

\* get_runner is about to be called with some configuration
InitCfg ==
    /\ cfg \in TunConfigs
    /\ result = NotCalled
    /\ tun_cfg = DefaultTunCfg
    /\ effects = <<>>
    /\ runner = "none"
    /\ resolver = DefaultResolver
    /\ TasksIdle

\* get_runner returned a runner for ValidConfig and it was polled once
RunnerStarted ==
    /\ cfg = ValidConfig
    /\ result = OkSomeRunner
    /\ tun_cfg = get_runner(ValidConfig, TRUE, TRUE).tun_cfg
    /\ effects = get_runner(ValidConfig, TRUE, TRUE).effects
    /\ runner = "running"
    /\ pump = [d \in Dirs |-> [pc |-> "next", pkt |-> None, end |-> "running"]]
    /\ produced = [d \in Dirs |-> <<>>]
    /\ written = [d \in Dirs |-> <<>>]
    /\ acceptPc = "next"
    /\ handlers = <<>>
    /\ dispatched = <<>>
    /\ udpFut = "start"
    /\ lLoop = IdleLoop
    /\ dLoop = IdleLoop
    /\ l_chan = <<>>
    /\ d_chan = <<>>
    /\ udp_stream = "none"
    /\ taken = <<>>
    /\ delivered = <<>>
    /\ dispSent = <<>>
    /\ stackSent = <<>>
    /\ dgramDispatched = <<>>

(***************************************************************************)
(* get_runner alone, over all configurations.                              *)
(***************************************************************************)
NextCfg ==
    \/ GetRunnerCall
    \/ RunnerStart

SpecCfg == InitCfg /\ [][NextCfg]_vars

(***************************************************************************)
(* The frame pump alone.                                                   *)
(***************************************************************************)
InitPump == RunnerStarted /\ resolver = DefaultResolver

NextPump ==
    \/ \E d \in Dirs : PumpNext(d, MaxFrames, Payloads)
    \/ \E d \in Dirs : PumpSend(d)

SpecPump == InitPump /\ [][NextPump]_vars

(***************************************************************************)
(* The TCP accept loop and its handlers alone, over all resolver states.   *)
(***************************************************************************)
InitTcp ==
    /\ RunnerStarted
    /\ resolver \in {r \in Resolvers : r.fwd = DefaultResolver.fwd}

NextTcp ==
    \/ AcceptNext(MaxConns, RemoteAddrs)
    \/ \E i \in 1..MaxConns : HandlerStart(i)
    \/ \E i \in 1..MaxConns : IsFakeIpReturns(i)
    \/ \E i \in 1..MaxConns : ReverseLookupReturns(i)
    \/ \E i \in 1..MaxConns : DispatchStreamReturns(i)

SpecTcp == InitTcp /\ [][NextTcp]_vars

(***************************************************************************)
(* The UDP adapter alone, with enough datagrams to fill both channels.     *)
(***************************************************************************)
\* the packets the stack and the dispatcher inject, taken together
MaxPackets == 34

StackEndpoint == {SocketAddr("10.0.0.2", 5000)}
ConcreteAddr == {SocksAddrIp(SocketAddr("1.1.1.1", 53))}

InitUdp == RunnerStarted /\ resolver = DefaultResolver

NextUdp ==
    \/ HandleInboundDatagram
    \/ LoopRecv({TRUE})
    \/ LoopRecvFrom(MaxPackets, StackEndpoint)
    \/ LoopSend
    \/ DispatcherRecv
    \/ DispatcherSend(MaxPackets, ConcreteAddr, ConcreteAddr)
    \/ DispatcherDrop

SpecUdp == InitUdp /\ [][NextUdp]_vars

(***************************************************************************)
(* The UDP adapter with several flows: packets with concrete and hostname  *)
(* sources, with and without a fake-IP mapping, stack writes that fail,    *)
(* and datagrams between different endpoints.                              *)
(***************************************************************************)
MaxFlowPackets == 3

FlowHosts == {"example.com", "unmapped.test"}

\* example.com has a fake IP, unmapped.test has none
FlowResolver ==
    [DefaultResolver EXCEPT
        !.fwd = [h \in FlowHosts |-> IF h = "example.com"
                                     THEN Some("198.18.0.5") ELSE None]]

FlowSources ==
    ConcreteAddr \cup {SocksAddrDomain(h, 53) : h \in FlowHosts}

FlowEndpoints == {SocketAddr("10.0.0.2", 5000), SocketAddr("10.0.0.3", 5001)}

InitUdpFlows == RunnerStarted /\ resolver = FlowResolver

NextUdpFlows ==
    \/ HandleInboundDatagram
    \/ LoopRecv(BOOLEAN)
    \/ LookupFakeIpReturns(BOOLEAN)
    \/ LoopRecvFrom(MaxFlowPackets, FlowEndpoints)
    \/ LoopSend
    \/ DispatcherRecv
    \/ DispatcherSend(MaxFlowPackets, FlowSources, ConcreteAddr)
    \/ DispatcherDrop

SpecUdpFlows == InitUdpFlows /\ [][NextUdpFlows]_vars

(***************************************************************************)
(* The whole adapter: get_runner, the runner future and every task it      *)
(* starts, with a small environment.                                       *)
(***************************************************************************)
RunnerMaxFrames == 1
RunnerMaxConns == 1
RunnerMaxPackets == 1

DisabledConfig == [ValidConfig EXCEPT !.enable = FALSE]

RunnerRemotes == {SocketAddr("198.18.0.5", 80)}
DomainAddr == {SocksAddrDomain("example.com", 53)}

Init ==
    /\ cfg \in {ValidConfig, DisabledConfig}
    /\ result = NotCalled
    /\ tun_cfg = DefaultTunCfg
    /\ effects = <<>>
    /\ runner = "none"
    /\ resolver = DefaultResolver
    /\ TasksIdle

Next ==
    \/ GetRunnerCall
    \/ RunnerStart
    \/ RunnerComplete
    \/ \E d \in Dirs : PumpNext(d, RunnerMaxFrames, {"p1"})
    \/ \E d \in Dirs : PumpSend(d)
    \/ AcceptNext(RunnerMaxConns, RunnerRemotes)
    \/ \E i \in 1..RunnerMaxConns : HandlerStart(i)
    \/ \E i \in 1..RunnerMaxConns : IsFakeIpReturns(i)
    \/ \E i \in 1..RunnerMaxConns : ReverseLookupReturns(i)
    \/ \E i \in 1..RunnerMaxConns : DispatchStreamReturns(i)
    \/ HandleInboundDatagram
    \/ LoopRecv({TRUE})
    \/ LookupFakeIpReturns({TRUE})
    \/ LoopRecvFrom(RunnerMaxPackets, StackEndpoint)
    \/ LoopSend
    \/ DispatcherRecv
    \/ DispatcherSend(RunnerMaxPackets, DomainAddr, ConcreteAddr)
    \/ DispatcherDrop

Spec == Init /\ [][Next]_vars

\* The runner under fair scheduling: join_all polls handle_inbound_datagram,
\* which returns at its first poll, and returns once its four futures have.
\* The joined futures, the handlers and the stack -> dispatcher loop; the
\* dispatcher sends nothing.
NextShutdown ==
    \/ GetRunnerCall
    \/ RunnerStart
    \/ RunnerComplete
    \/ \E d \in Dirs : PumpNext(d, RunnerMaxFrames, {"p1"})
    \/ \E d \in Dirs : PumpSend(d)
    \/ AcceptNext(RunnerMaxConns, RunnerRemotes)
    \/ \E i \in 1..RunnerMaxConns : HandlerStart(i)
    \/ \E i \in 1..RunnerMaxConns : IsFakeIpReturns(i)
    \/ \E i \in 1..RunnerMaxConns : ReverseLookupReturns(i)
    \/ \E i \in 1..RunnerMaxConns : DispatchStreamReturns(i)
    \/ HandleInboundDatagram
    \/ LoopRecvFrom(RunnerMaxPackets, StackEndpoint)
    \/ LoopSend

SpecFair ==
    Init /\ [][NextShutdown]_vars
         /\ WF_vars(HandleInboundDatagram) /\ WF_vars(RunnerComplete)

(***************************************************************************)
(* Properties.                                                             *)
(***************************************************************************)
IsPrefix(a, b) == Len(a) <= Len(b) /\ SubSeq(b, 1, Len(a)) = a

DataOf(seq) == [k \in 1..Len(seq) |-> seq[k].data]

\* the number of dispatch_stream calls made for connection i
DispatchCount(i) ==
    Cardinality({k \in 1..Len(dispatched) : dispatched[k].conn = i})

HandlersRunning == \E i \in 1..Len(handlers) : handlers[i].pc # "done"
UdpLoopsRunning ==
    \/ lLoop.pc \in {"recv", "lookup_fake_ip"}
    \/ dLoop.pc \in {"recv_from", "send"}

NoReverseMapping(i) ==
    /\ resolver.enabled
    /\ handlers[i].remote_addr.ip \in resolver.fake
    /\ resolver.rev[handlers[i].remote_addr.ip] = None

C2_State ==
    \A i \in 1..Len(handlers) :
        /\ DispatchCount(i) <= 1
        /\ handlers[i].pc = "done" =>
               DispatchCount(i) = IF NoReverseMapping(i) THEN 0 ELSE 1
        /\ handlers[i].outcome = "abandoned" => NoReverseMapping(i)

C2_Step ==
    \A i \in 1..Len(handlers) :
        (handlers[i].outcome # "abandoned" /\ handlers'[i].outcome = "abandoned")
        => /\ dispatched' = dispatched
           /\ acceptPc' = acceptPc
           /\ Len(handlers') = Len(handlers)
           /\ \A j \in 1..Len(handlers) : j # i => handlers'[j] = handlers[j]

\* C2: every accepted connection is dispatched at most once, and exactly once
\* by the time its handler ends unless fake-IP is enabled, the remote IP is
\* fake and reverse_lookup finds no hostname, when it is dispatched zero times;
\* the step that abandons a connection changes no other connection's handler,
\* no dispatch and not the accept loop.
C2_DispatchAtMostOnce == []C2_State /\ [][C2_Step]_vars

C2_Witness ==
    \E i \in 1..Len(handlers), j \in 1..Len(handlers) :
        /\ i < j
        /\ handlers[i].outcome = "abandoned"
        /\ handlers[j].outcome = "dispatched"
        /\ DispatchCount(i) = 0
        /\ DispatchCount(j) = 1
        /\ acceptPc = "next"

\* C3: a connection whose remote IP is fake (fake-IP enabled, is_fake_ip
\* true) and reverse-maps to hostname h is dispatched with network TCP, its
\* local endpoint as source, and the domain address (h, remote port) as
\* destination.
C3_FakeIpDispatchedAsDomain ==
    \A k \in 1..Len(dispatched) :
        LET h == handlers[dispatched[k].conn]
            sess == dispatched[k].sess
            ip == h.remote_addr.ip
        IN  (resolver.enabled /\ ip \in resolver.fake /\ resolver.rev[ip] # None)
            => /\ sess.network = "Tcp"
               /\ sess.source = h.local_addr
               /\ sess.destination = [kind |-> "Domain",
                                      host |-> resolver.rev[ip][1],
                                      port |-> h.remote_addr.port]

C3_Witness ==
    \E k \in 1..Len(dispatched) :
        /\ handlers[dispatched[k].conn].remote_addr
               = [ip |-> "198.18.0.5", port |-> 443]
        /\ handlers[dispatched[k].conn].local_addr
               = [ip |-> "10.0.0.2", port |-> 5000]
        /\ dispatched[k].sess.destination
               = [kind |-> "Domain", host |-> "example.com", port |-> 443]

\* C4: a connection for which fake-IP is disabled or the resolver does not
\* flag the remote IP as fake is never abandoned, is dispatched by the time
\* its handler has passed the check, with the concrete remote IP and port as
\* destination; reverse_lookup is never queried for it, and is_fake_ip is not
\* queried when fake-IP is disabled.
C4_ConcreteDispatchedUnchanged ==
    \A i \in 1..Len(handlers) :
        LET h == handlers[i]
        IN  (~resolver.enabled \/ h.remote_addr.ip \notin resolver.fake)
            => /\ "reverse_lookup" \notin h.queries
               /\ ~resolver.enabled => h.queries = {}
               /\ h.outcome # "abandoned"
               /\ h.pc \notin {"spawned", "is_fake_ip"} => DispatchCount(i) = 1
               /\ \A k \in 1..Len(dispatched) :
                      dispatched[k].conn = i =>
                          /\ dispatched[k].sess.destination =
                                 [kind |-> "Ip", ip |-> h.remote_addr.ip,
                                  port |-> h.remote_addr.port]
                          /\ dispatched[k].sess.source = h.local_addr

C4_Witness ==
    \E i \in 1..Len(handlers), j \in 1..Len(handlers) :
        /\ handlers[i].outcome = "dispatched"
        /\ handlers[j].outcome = "dispatched"
        /\ ~resolver.enabled
        /\ handlers[i].remote_addr.ip \in resolver.fake
        /\ handlers[j].remote_addr.ip \notin resolver.fake

\* C5: no session handed to dispatch_stream has a concrete-IP destination
\* that is a fake IP (fake-IP enabled and is_fake_ip true of it), and every
\* session of a connection whose remote address is fake has a hostname
\* destination.
C5_NoUnresolvedFakeDestination ==
    \A k \in 1..Len(dispatched) :
        LET dest == dispatched[k].sess.destination
            remote == handlers[dispatched[k].conn].remote_addr
        IN  /\ dest.kind = "Ip" => ~(resolver.enabled /\ dest.ip \in resolver.fake)
            /\ (resolver.enabled /\ remote.ip \in resolver.fake)
                   => dest.kind = "Domain"

C5_Witness ==
    /\ Len(dispatched) = 2
    /\ dispatched[1].conn = 2
    /\ dispatched[1].sess.destination.kind = "Domain"
    /\ dispatched[2].sess.destination.kind = "Ip"
    /\ resolver.enabled

C6_State ==
    \A d \in Dirs :
        /\ IsPrefix(DataOf(written[d]), DataOf(produced[d]))
        /\ Len(produced[d]) - Len(written[d]) <= 1
        /\ \A k \in 1..Len(written[d]) :
               written[d][k].kind =
                   IF d = "stack_to_tun" THEN "TunPacket" ELSE "bytes"

C6_Step ==
    \A d \in Dirs :
        /\ pump[d].pc = "done" => written'[d] = written[d]
        /\ IsPrefix(written[d], written'[d])
        /\ Len(written'[d]) <= Len(written[d]) + 1

\* C6: in each pump direction the frames written to the sink are, in order
\* and byte for byte, a prefix of the frames the source produced, each
\* written once, none skipped before a later one; written frames are never
\* taken back and nothing is written once the loop has ended.
C6_FrameOrderPreserved == []C6_State /\ [][C6_Step]_vars

C6_Witness ==
    /\ DataOf(written["stack_to_tun"]) = <<"p1", "p2", "p1">>
    /\ DataOf(written["tun_to_stack"]) = <<"p2", "p2">>
    /\ pump["tun_to_stack"].end = "sink error"
    /\ Len(produced["tun_to_stack"]) = 3

OtherDir(d) == CHOOSE e \in Dirs : e # d

C7_Step ==
    \A d \in Dirs :
        (pump[d].pc # "done" /\ pump'[d].pc = "done")
        => /\ pump'[OtherDir(d)] = pump[OtherDir(d)]
           /\ acceptPc' = acceptPc
           /\ handlers' = handlers
           /\ udpFut' = udpFut
           /\ lLoop' = lLoop
           /\ dLoop' = dLoop
           /\ runner' = runner

C7_State ==
    \A d \in Dirs :
        pump[d].pc = "done" =>
            /\ (pump[OtherDir(d)].pc # "done" \/ acceptPc # "done"
                   \/ udpFut # "done") => runner # "done"
            /\ pump[OtherDir(d)].pc = "next" =>
                   ENABLED PumpNext(OtherDir(d), RunnerMaxFrames, {"p1"})
            /\ pump[OtherDir(d)].pc = "send" => ENABLED PumpSend(OtherDir(d))
            /\ acceptPc = "next" => ENABLED AcceptNext(RunnerMaxConns, RunnerRemotes)
            /\ dLoop.pc = "recv_from" =>
                   ENABLED LoopRecvFrom(RunnerMaxPackets, StackEndpoint)
            /\ (lLoop.pc = "recv" /\ l_chan # <<>>) => ENABLED LoopRecv({TRUE})

\* C7: the step that ends one pump direction (source error, end of stream or
\* sink error) changes no other task and does not complete the runner; the
\* other direction, the accept loop and the UDP loops can still step, and
\* the runner is not complete while another joined future is running.
C7_FailureIsolation == []C7_State /\ [][C7_Step]_vars

C7_Witness ==
    /\ pump["stack_to_tun"].end = "sink error"
    /\ pump["tun_to_stack"].pc = "next"
    /\ Len(written["tun_to_stack"]) = 1
    /\ acceptPc = "next"
    /\ dLoop.pc = "recv_from"
    /\ runner = "running"

\* the packet the stack -> dispatcher loop builds from a datagram
PacketOf(dg) ==
    [data |-> dg.data,
     src_addr |-> [kind |-> "Ip", ip |-> dg.src_addr.ip, port |-> dg.src_addr.port],
     dst_addr |-> [kind |-> "Ip", ip |-> dg.dst_addr.ip, port |-> dg.dst_addr.port]]

\* C8: neither channel ever holds more than 32 packets; with 32 packets
\* queued and the receiver alive the stack -> dispatcher loop cannot complete
\* its send; and while the receiver exists, what the dispatcher received,
\* then the queue, then the packet held at the send is exactly the sequence
\* of datagrams taken from the stack, in order.
C8_Backpressure ==
    /\ Len(l_chan) <= 32
    /\ Len(d_chan) <= 32
    /\ (dLoop.pc = "send" /\ udp_stream = "alive" /\ Len(d_chan) = 32)
           => ~ENABLED LoopSend
    /\ (dLoop.pc = "send" /\ udp_stream = "alive" /\ Len(d_chan) < 32)
           => ENABLED LoopSend
    /\ udp_stream = "alive" =>
           delivered \o d_chan \o dLoop.pkt
               = [k \in 1..Len(taken) |-> PacketOf(taken[k])]

C8_Witness ==
    /\ Len(d_chan) = 32
    /\ dLoop.pc = "send"
    /\ udp_stream = "alive"
    /\ Len(delivered) = 1
    /\ Len(taken) = 34

\* C9: with enable = false get_runner returns Ok(None) whatever the device
\* identifier and the network are, parses nothing, opens no device, creates
\* no stack, and no task is ever started.
C9_DisabledReturnsNone ==
    (~cfg.enable /\ result # NotCalled) =>
        /\ result = [tag |-> "Ok", value |-> "None"]
        /\ effects = <<>>
        /\ tun_cfg = DefaultTunCfg
        /\ runner = "none"
        /\ acceptPc = "idle" /\ udpFut = "idle"
        /\ \A d \in Dirs : pump[d].pc = "idle"

C9_Witness ==
    /\ ~cfg.enable
    /\ result = [tag |-> "Ok", value |-> "None"]
    /\ cfg.device_id = <<"t", "a", "p", ":", "/", "/", "t", "a", "p", "0">>
    /\ cfg.network = <<<<10, ".", 0, ".", 0, ".", 0, "/", 33>>>>

StartsWith(s, prefix) ==
    Len(s) >= Len(prefix) /\ SubSeq(s, 1, Len(prefix)) = prefix

AfterPrefix(s, prefix) == SubSeq(s, Len(prefix) + 1, Len(s))

FdPrefix == <<"f", "d", ":", "/", "/">>
DevPrefix == <<"d", "e", "v", ":", "/", "/">>

\* the identifier is fd://<n>, n a string of decimal digits
IsFdId(id) ==
    /\ StartsWith(id, FdPrefix)
    /\ Len(id) > Len(FdPrefix)
    /\ \A k \in (Len(FdPrefix) + 1)..Len(id) : id[k] \in Digits

\* the identifier is dev://<name>, name a string of letters and digits
IsDevId(id) ==
    /\ StartsWith(id, DevPrefix)
    /\ Len(id) > Len(DevPrefix)
    /\ \A k \in (Len(DevPrefix) + 1)..Len(id) : id[k] \in Alpha \cup Digits

\* the identifier is <scheme>://..., the scheme neither fd nor dev
IsOtherSchemeId(id) ==
    \E k \in 2..Len(id) :
        /\ id[k] = ":"
        /\ \A j \in 1..(k - 1) : id[j] \in Alpha
        /\ SubSeq(id, 1, k - 1) \notin {<<"f", "d">>, <<"d", "e", "v">>}

NothingOpened ==
    /\ \A k \in 1..Len(effects) :
           effects[k] \notin {"tun::create_as_async", "NetStack::with_buffer_size"}
    /\ runner = "none"
    /\ acceptPc = "idle" /\ udpFut = "idle"
    /\ \A d \in Dirs : pump[d].pc = "idle"

C10_OtherSchemes ==
    IsOtherSchemeId(cfg.device_id) =>
        /\ result.tag = "Err"
        /\ result.kind = "InvalidConfig"
        /\ NothingOpened

C10_DevSelectsByName ==
    IsDevId(cfg.device_id) =>
        /\ tun_cfg.name = <<AfterPrefix(cfg.device_id, DevPrefix)>>
        /\ tun_cfg.raw_fd = <<>>

FdSelected(id) ==
    /\ tun_cfg.raw_fd = <<[neg |-> FALSE,
                           digits |-> StripZeros(AfterPrefix(id, FdPrefix))]>>
    /\ tun_cfg.name = <<>>

\* C10 as stated: for an enabled configuration, fd://<n> with n any unsigned
\* integer selects the raw descriptor n, dev://<name> selects creation by
\* name, and any other scheme is an InvalidConfig error before anything is
\* opened.
C10_SchemeSelection ==
    (cfg.enable /\ result # NotCalled) =>
        /\ IsFdId(cfg.device_id) => FdSelected(cfg.device_id)
        /\ C10_DevSelectsByName
        /\ C10_OtherSchemes

\* C10 amended: as stated, for fd://<n> with n at most 2147483647, the
\* largest RawFd; a larger n is an InvalidConfig error before anything is
\* opened.
C10_SchemeSelectionWithinRawFd ==
    (cfg.enable /\ result # NotCalled) =>
        /\ IsFdId(cfg.device_id) =>
               IF FitsIn(AfterPrefix(cfg.device_id, FdPrefix), I32_MAX_DIGITS)
               THEN FdSelected(cfg.device_id)
               ELSE /\ result = [tag |-> "Err", kind |-> "InvalidConfig",
                                 what |-> "tun fd"]
                    /\ NothingOpened
        /\ C10_DevSelectsByName
        /\ C10_OtherSchemes

C10_Witness ==
    /\ cfg.enable
    /\ cfg.device_id = <<"f", "d", ":", "/", "/", "0", "4", "2">>
    /\ tun_cfg.raw_fd = <<[neg |-> FALSE, digits |-> <<"4", "2">>]>>
    /\ result = [tag |-> "Ok", value |-> "Some"]
    /\ runner = "running"

\* the identifier has scheme fd or dev and no host part: nothing, or
\* something other than //<host>, follows the colon
IsHostlessId(id) ==
    \E p \in {<<"f", "d", ":">>, <<"d", "e", "v", ":">>} :
        /\ StartsWith(id, p)
        /\ \/ ~StartsWith(AfterPrefix(id, p), <<"/", "/">>)
           \/ AfterPrefix(id, p) = <<"/", "/">>

\* C11: for an enabled configuration whose device identifier has scheme fd
\* or dev and no host part, get_runner returns an InvalidConfig error to its
\* caller, and neither the device nor the stack is opened.
C11_MissingHostIsReturnedError ==
    (cfg.enable /\ result # NotCalled /\ IsHostlessId(cfg.device_id)) =>
        /\ result.tag = "Err"
        /\ result.kind = "InvalidConfig"
        /\ NothingOpened

\* the CIDR string is a.b.c.d/p with octets up to 255 and p up to 32
IsCidr(s) ==
    /\ Len(s) = 9
    /\ \A k \in {1, 3, 5, 7} : s[k] \in 0..255
    /\ \A k \in {2, 4, 6} : s[k] = "."
    /\ s[8] = "/"
    /\ s[9] \in 0..32

\* the device identifier passes the scheme selection of lines 126-146
DeviceIdAccepted(id) ==
    \/ IsDevId(id)
    \/ IsFdId(id) /\ FitsIn(AfterPrefix(id, FdPrefix), I32_MAX_DIGITS)

NetworkString == IF cfg.network = <<>> THEN DefaultNetwork ELSE cfg.network[1]

ExpectedAddress(s) ==
    CASE s = <<198, ".", 18, ".", 0, ".", 0, "/", 16>> -> <<198, 18, 0, 1>>
      [] s = <<10, ".", 0, ".", 0, ".", 5, "/", 24>> -> <<10, 0, 0, 1>>
      [] s = <<192, ".", 168, ".", 1, ".", 1, "/", 32>> -> <<192, 168, 1, 1>>
      [] s = <<10, ".", 0, ".", 0, ".", 2, "/", 31>> -> <<10, 0, 0, 2>>
      [] s = <<0, ".", 0, ".", 0, ".", 0, "/", 0>> -> <<0, 0, 0, 1>>
      [] s = <<172, ".", 16, ".", 5, ".", 77, "/", 20>> -> <<172, 16, 0, 1>>

ExpectedNetmask(s) ==
    CASE s = <<198, ".", 18, ".", 0, ".", 0, "/", 16>> -> <<255, 255, 0, 0>>
      [] s = <<10, ".", 0, ".", 0, ".", 5, "/", 24>> -> <<255, 255, 255, 0>>
      [] s = <<192, ".", 168, ".", 1, ".", 1, "/", 32>> -> <<255, 255, 255, 255>>
      [] s = <<10, ".", 0, ".", 0, ".", 2, "/", 31>> -> <<255, 255, 255, 254>>
      [] s = <<0, ".", 0, ".", 0, ".", 0, "/", 0>> -> <<0, 0, 0, 0>>
      [] s = <<172, ".", 16, ".", 5, ".", 77, "/", 20>> -> <<255, 255, 240, 0>>

\* C13: whenever get_runner gets as far as configuring the interface, the
\* configured address is the first host address of the network and the
\* configured netmask is the network's netmask, the network being
\* 198.18.0.0/16 (address 198.18.0.1, netmask 255.255.0.0) when the field is
\* absent; the interface is brought up.
C13_InterfaceAddress ==
    (cfg.enable /\ result # NotCalled /\ DeviceIdAccepted(cfg.device_id)
        /\ IsCidr(NetworkString)) =>
        /\ tun_cfg.address = <<ExpectedAddress(NetworkString)>>
        /\ tun_cfg.netmask = <<ExpectedNetmask(NetworkString)>>
        /\ tun_cfg.up
        /\ cfg.network = <<>> =>
               /\ tun_cfg.address = <<<<198, 18, 0, 1>>>>
               /\ tun_cfg.netmask = <<<<255, 255, 0, 0>>>>

C13_Witness ==
    /\ cfg.network = <<<<172, ".", 16, ".", 5, ".", 77, "/", 20>>>>
    /\ tun_cfg.address = <<<<172, 16, 0, 1>>>>
    /\ tun_cfg.netmask = <<<<255, 255, 240, 0>>>>
    /\ result = [tag |-> "Ok", value |-> "Some"]

\* the packets the dispatcher -> stack loop has finished with
Processed ==
    SubSeq(dispSent, 1,
           Len(dispSent) - Len(l_chan)
               - (IF lLoop.pc = "lookup_fake_ip" THEN 1 ELSE 0))

\* the stack write a packet calls for: none for a hostname without a fake IP
WriteFor(pkt) ==
    IF pkt.src_addr.kind = "Ip"
    THEN <<[data |-> pkt.data,
            src |-> [ip |-> pkt.src_addr.ip, port |-> pkt.src_addr.port],
            dst |-> [ip |-> pkt.dst_addr.ip, port |-> pkt.dst_addr.port]]>>
    ELSE IF resolver.fwd[pkt.src_addr.host] = <<>> THEN <<>>
    ELSE <<[data |-> pkt.data,
            src |-> [ip |-> resolver.fwd[pkt.src_addr.host][1],
                     port |-> pkt.src_addr.port],
            dst |-> [ip |-> pkt.dst_addr.ip, port |-> pkt.dst_addr.port]]>>

RECURSIVE WritesFor(_)
WritesFor(pkts) ==
    IF pkts = <<>> THEN <<>>
    ELSE WriteFor(Head(pkts)) \o WritesFor(Tail(pkts))

WriteCalls ==
    [k \in 1..Len(stackSent) |->
        [data |-> stackSent[k].data, src |-> stackSent[k].src,
         dst |-> stackSent[k].dst]]

C14_State ==
    /\ WriteCalls = WritesFor(Processed)
    /\ lLoop.pc \in {"idle", "recv", "lookup_fake_ip", "done"}
    /\ lLoop.pc = "done" =>
           udp_stream = "dropped" /\ l_chan = <<>> /\ Processed = dispSent
    /\ (lLoop.pc = "recv" /\ l_chan # <<>>) => ENABLED LoopRecv(BOOLEAN)
    /\ lLoop.pc = "lookup_fake_ip" => ENABLED LookupFakeIpReturns(BOOLEAN)

C14_Step ==
    /\ (lLoop.pc # "done" /\ lLoop'.pc = "done") =>
           lLoop.pc = "recv" /\ udp_stream = "dropped" /\ l_chan = <<>>
    /\ IsPrefix(stackSent, stackSent')
    /\ Len(stackSent') <= Len(stackSent) + 1

\* C14: with concrete destinations, the stack writes made by the
\* dispatcher -> stack loop are, in channel order, one per packet it has
\* finished with: source unchanged for a concrete source, (ip, port) for a
\* hostname source that lookup_fake_ip maps to ip, and none for a hostname
\* without a mapping; whether or not a write fails the loop goes on to the
\* next packet, and it ends only from its receive, with the channel closed
\* by the dispatcher and drained.
C14_DispatcherToStack == []C14_State /\ [][C14_Step]_vars

C14_Witness ==
    /\ Len(dispSent) = 3
    /\ dispSent[2].src_addr = [kind |-> "Domain", host |-> "unmapped.test",
                               port |-> 53]
    /\ Len(stackSent) = 2
    /\ ~stackSent[1].ok
    /\ stackSent[1].src = [ip |-> "1.1.1.1", port |-> 53]
    /\ stackSent[2].ok
    /\ stackSent[2].data = 3
    /\ stackSent[2].src = [ip |-> "198.18.0.5", port |-> 53]
    /\ lLoop.pc = "done"

\* the step in which d_tx.send fails because the receiver is gone
SendFails == dLoop.pc = "send" /\ udp_stream = "dropped" /\ dLoop' # dLoop

C15_State ==
    /\ (dLoop.pc = "send" /\ udp_stream = "dropped") => ENABLED LoopSend
    /\ dLoop.pc = "recv_from" =>
           ENABLED LoopRecvFrom(MaxPackets, StackEndpoint)

C15_Step ==
    /\ SendFails =>
           /\ dLoop' = [pc |-> "recv_from", pkt |-> <<>>]
           /\ d_chan' = d_chan
           /\ delivered' = delivered
    /\ (dLoop.pc # "done" /\ dLoop'.pc = "done") =>
           dLoop.pc = "recv_from" /\ taken' = taken

\* C15: once the dispatcher's receiver is gone, a send of the
\* stack -> dispatcher loop fails without waiting, the packet is discarded
\* and the loop is back at recv_from, where it can take the next datagram;
\* the loop ends only from recv_from, when it returns an error.
C15_LoopSurvivesSendFailure == []C15_State /\ [][C15_Step]_vars

C15_Witness ==
    /\ udp_stream = "dropped"
    /\ Len(taken) = 34
    /\ delivered = <<>>
    /\ dLoop.pc = "recv_from"

C16_Step ==
    SendFails =>
        /\ dLoop'.pc = "recv_from"
        /\ lLoop' = lLoop
        /\ l_chan' = l_chan
        /\ stackSent' = stackSent
        /\ udpFut' = udpFut
        /\ pump' = pump
        /\ acceptPc' = acceptPc
        /\ handlers' = handlers
        /\ runner' = runner

\* C16 as stated: a send that fails because the dispatcher's receiver was
\* dropped is the end of the stream for the stack -> dispatcher loop: the
\* loop does not go back to recv_from, it ends.
C16_SendFailureEndsLoop == [][SendFails => dLoop'.pc = "done"]_vars

\* C16 amended: a send that fails because the dispatcher's receiver was
\* dropped does not end the stack -> dispatcher loop, which goes back to
\* recv_from and is never ended by a send; and the failure changes no other
\* task: not the dispatcher -> stack loop, the pumps, the accept loop, the
\* handlers or the runner.
C16_SendFailureNotEscalated ==
    [][C16_Step /\ (dLoop.pc = "send" => dLoop'.pc # "done")]_vars

C16_Witness ==
    /\ udp_stream = "dropped"
    /\ Len(taken) = 33
    /\ delivered = <<>>
    /\ dLoop.pc = "recv_from"
    /\ lLoop.pc = "recv"
    /\ l_chan # <<>>

C17_State ==
    /\ Len(dgramDispatched) <= 1
    /\ udpFut = "done" <=> Len(dgramDispatched) = 1
    /\ \A k \in 1..Len(dgramDispatched) :
           /\ dgramDispatched[k].sess.network = "Udp"
           /\ dgramDispatched[k].sess.source = [ip |-> "0.0.0.0", port |-> 0]
           /\ dgramDispatched[k].sess.destination
                  = [kind |-> "Ip", ip |-> "0.0.0.0", port |-> 0]
           /\ dgramDispatched[k].endpoint = "udp_stream"
    /\ dgramDispatched = <<>> =>
           /\ lLoop.pc = "idle" /\ dLoop.pc = "idle"
           /\ taken = <<>> /\ dispSent = <<>>
    /\ dgramDispatched # <<>> => lLoop.pc # "idle" /\ dLoop.pc # "idle"

C17_Step ==
    /\ dgramDispatched' # dgramDispatched =>
           /\ dgramDispatched = <<>>
           /\ udpFut = "start"
           /\ lLoop'.pc = "recv" /\ dLoop'.pc = "recv_from"
    /\ (taken' # taken \/ dispSent' # dispSent \/ delivered' # delivered
           \/ stackSent' # stackSent) => dgramDispatched' = dgramDispatched

\* C17: dispatch_datagram is called once, by handle_inbound_datagram in the
\* step that also starts both UDP loops, with a session of network UDP whose
\* source and destination are the default addresses and with the TunDatagram
\* endpoint; no datagram taken from the stack and no packet of the dispatcher,
\* whatever its endpoints, causes another call.
C17_DispatchDatagramOnce == []C17_State /\ [][C17_Step]_vars

C17_Witness ==
    /\ Len(dgramDispatched) = 1
    /\ Len(taken) = 2
    /\ taken[1].src_addr # taken[2].src_addr
    /\ Len(delivered) = 2
    /\ Len(dispSent) = 1
    /\ Len(stackSent) = 1

Suspended(i) ==
    handlers[i].pc \in {"is_fake_ip", "reverse_lookup", "dispatch_stream"}

\* C18: while the handler of an accepted connection is suspended in
\* is_fake_ip, reverse_lookup or dispatch_stream, the accept loop, if the
\* listener has a connection, can take it and spawn its handler, and every
\* other handler can take its own next step.
C18_AcceptNotBlocked ==
    \A i \in 1..Len(handlers) :
        Suspended(i) =>
            /\ (acceptPc = "next" /\ Len(handlers) < MaxConns) =>
                   ENABLED (AcceptNext(MaxConns, RemoteAddrs)
                               /\ Len(handlers') = Len(handlers) + 1)
            /\ \A j \in 1..Len(handlers) :
                   /\ handlers[j].pc = "spawned" => ENABLED HandlerStart(j)
                   /\ handlers[j].pc = "is_fake_ip" => ENABLED IsFakeIpReturns(j)
                   /\ handlers[j].pc = "reverse_lookup" =>
                          ENABLED ReverseLookupReturns(j)
                   /\ handlers[j].pc = "dispatch_stream" =>
                          ENABLED DispatchStreamReturns(j)

C18_Witness ==
    /\ Len(handlers) = 2
    /\ handlers[1].pc = "reverse_lookup"
    /\ DispatchCount(1) = 0
    /\ handlers[2].outcome = "dispatched"
    /\ DispatchCount(2) = 1

JoinedLoopsEnded ==
    /\ \A d \in Dirs : pump[d].pc = "done"
    /\ acceptPc = "done"

\* C19: the runner is never complete while a pump loop or the accept loop is
\* running, and under fair scheduling, once both pump loops and the accept
\* loop have ended, the runner eventually completes.
C19_Shutdown ==
    /\ [](runner = "done" => JoinedLoopsEnded)
    /\ (JoinedLoopsEnded ~> runner = "done")

C19_Witness ==
    /\ runner = "done"
    /\ pump["stack_to_tun"].end = "source error"
    /\ pump["tun_to_stack"].end = "sink error"
    /\ acceptPc = "done"
    /\ Len(handlers) = 1

\* the dispatcher -> stack loop waits for a packet
LoopWaitsForPacket ==
    lLoop.pc = "recv" /\ l_chan = <<>> /\ udp_stream = "alive"

\* the stack -> dispatcher loop waits for a free slot
LoopWaitsForSlot ==
    dLoop.pc = "send" /\ Len(d_chan) = 32 /\ udp_stream = "alive"

C20_State ==
    /\ (lLoop.pc = "recv" /\ l_chan # <<>>) => ENABLED LoopRecv({TRUE})
    /\ dLoop.pc = "recv_from" =>
           ENABLED LoopRecvFrom(MaxPackets, StackEndpoint)
    /\ (dLoop.pc = "send" /\ Len(d_chan) < 32) => ENABLED LoopSend
    /\ LoopWaitsForSlot => ENABLED DispatcherRecv
    /\ LoopWaitsForPacket => ENABLED DispatcherDrop
    /\ (lLoop.pc = "recv" /\ ~ENABLED LoopRecv({TRUE})) => LoopWaitsForPacket
    /\ (dLoop.pc = "send" /\ ~ENABLED LoopSend) => LoopWaitsForSlot

C20_Step ==
    /\ ((lLoop' # lLoop \/ stackSent' # stackSent) /\ udpFut' = udpFut) =>
           /\ dLoop' = dLoop
           /\ d_chan' = d_chan
           /\ taken' = taken
           /\ delivered' = delivered
    /\ (dLoop' # dLoop /\ udpFut' = udpFut) =>
           /\ lLoop' = lLoop
           /\ l_chan' = l_chan
           /\ stackSent' = stackSent
           /\ dispSent' = dispSent

\* C20: a step of either UDP loop changes nothing the other loop reads or
\* writes; the dispatcher -> stack loop can take a queued packet whatever the
\* state of the other loop, also when that loop waits on a full channel,
\* and the stack -> dispatcher loop can receive and send whatever the state
\* of the first; each loop waits only for the dispatcher (a packet, a free
\* slot), which can always provide it, never for the other loop.
C20_UdpDirectionsIndependent == []C20_State /\ [][C20_Step]_vars

C20_Witness ==
    /\ LoopWaitsForSlot
    /\ lLoop.pc = "recv"
    /\ Len(l_chan) = 1
    /\ Len(taken) = 33

====
